---- MODULE Spec2Model ----
(***************************************************************************)
(* Bootstrap of the two page entry points held in                          *)
(* superset/assets/javascripts/explorev2/index.jsx: the explore view       *)
(* (lines 1-59) and SQL Lab (lines 61-95).  Each entry point is a          *)
(* straight-line script; one action models one statement of the script.    *)
(***************************************************************************)
EXTENDS Integers, FiniteSets, Sequences, TLC

\* ------------------------------------------------------------------ bounds
MaxPayloadKeys == 3
MaxClock == 2

\* ------------------------------------------------------- JavaScript values
\* Values are tagged records with pairwise distinct field names, so that any
\* two values can be compared.
Undefined == [lit |-> "undefined"]
Null == [lit |-> "null"]
True == [lit |-> "true"]
False == [lit |-> "false"]
EmptyArray == [lit |-> "[]"]
Str(s) == [str |-> s]
Num(n) == [num |-> n]
Obj(f) == [obj |-> f]
Ref(n) == [ref |-> n]
NoFields == [k \in {} |-> Undefined]

IsObj(v) == DOMAIN v = {"obj"}
IsRef(v) == DOMAIN v = {"ref"}

\* o[k] on a field map: undefined for a missing property.
Get(f, k) == IF k \in DOMAIN f THEN f[k] ELSE Undefined

\* delete o[k]
DeleteProp_Keep(f, k) == f
DeleteProp(f, k) == [j \in DOMAIN f \ {k} |-> f[j]]

\* One source of Object.assign: own properties of g are copied over f.
AssignFields(f, g) == [k \in DOMAIN f \cup DOMAIN g |-> IF k \in DOMAIN g THEN g[k] ELSE f[k]]

RECURSIVE AssignAll(_, _)
AssignAll(f, srcs) == IF srcs = << >> THEN f ELSE AssignAll(AssignFields(f, Head(srcs)), Tail(srcs))

\* Object.assign(target, ...sources) on the heap: the target object is
\* mutated in place and is the result.
ObjectAssign(h, t, srcs) == [h EXCEPT ![t] = AssignAll(h[t], srcs)]

\* ------------------------------------------------------------ DOM contents
AttrNull == [absent |-> TRUE]
BadText == [text |-> "{not json"]
JsonText(v) == [json |-> v]

ParseThrows_AbsentToo(s) == DOMAIN s = {"text"} \/ DOMAIN s = {"absent"}
\* JSON.parse(s): null is coerced to the text "null", which parses to null;
\* text that is not JSON throws a SyntaxError.
ParseThrows(s) == DOMAIN s = {"text"}
JSONparse(s) == IF DOMAIN s = {"absent"} THEN Null ELSE IF DOMAIN s = {"json"} THEN s.json ELSE Undefined

\* ------------------------------------------------------------------- keys
ReservedKeys == {"controls", "latestQueryFormData", "chartStatus", "chartUpdateEndTime", "chartUpdateStartTime", "isDatasourceMetaLoading", "isStarred", "triggerQuery", "triggerRender"}
LiteralKeys == ReservedKeys \cup {"dashboards", "filterColumnOpts", "queryResponse"}
ExploreFreeKeys == {"datasource_id", "can_download"}
ExplorePayloadKeys == LiteralKeys \cup ExploreFreeKeys \cup {"form_data"}

Registry == {"metric", "viz_type"}
ControlDefault(c) == IF c = "metric" THEN Str("sum") ELSE Str("table")
FormDataKeys == Registry \cup {"not_a_control"}
FormDatas == {Obj([c \in S |-> Str("count")]) : S \in SUBSET FormDataKeys}

SqlLabDefaultKeys == {"alerts", "queries", "queryEditors"}
SqlLabPayloadKeys == {"defaultDbId", "alerts", "queries", "common"}

PV == Str("from payload")

KeySets(K) == {S \in SUBSET K : Cardinality(S) <= MaxPayloadKeys}
PayloadsOver(S) == IF "form_data" \in S THEN {[k \in S |-> IF k = "form_data" THEN fd ELSE PV] : fd \in FormDatas} ELSE {[k \in S |-> PV]}
ExplorePayloads == UNION {PayloadsOver(S) : S \in KeySets(ExplorePayloadKeys)}
SqlLabPayloads == UNION {PayloadsOver(S) : S \in KeySets(SqlLabPayloadKeys)}

Payloads(e) == IF e = "explore" THEN ExplorePayloads ELSE SqlLabPayloads
Attrs(e) == {AttrNull, BadText, JsonText(Null)} \cup {JsonText(Obj(p)) : p \in Payloads(e)}
Doms(e) == {[anchor |-> FALSE, attr |-> AttrNull]} \cup {[anchor |-> TRUE, attr |-> a] : a \in Attrs(e)}

\* ---------------------------------------------------- external collaborators
\* getControlsState(state, form_data) of ./stores/store: one descriptor per
\* registry control, seeded from the initial values when present.
ControlsThrows(iv) == IsObj(iv) /\ ~(DOMAIN iv.obj \subseteq Registry)
getControlsState(payload, iv) == Obj([c \in Registry |-> Obj([type |-> Str("control"), value |-> IF IsObj(iv) /\ c \in DOMAIN iv.obj THEN iv.obj[c] ELSE ControlDefault(c)])])

\* getFormDataFromControls(controls) of ./stores/store
getFormDataFromControls(c) == Obj([n \in DOMAIN c.obj |-> c.obj[n].obj.value])

\* getInitialState(defaultDbId) of ./reducers (SQL Lab)
getInitialState(defaultDbId) == [k \in SqlLabDefaultKeys |-> IF k = "queryEditors" THEN Obj([dbId |-> defaultDbId]) ELSE EmptyArray]

\* ------------------------------------------------------------------ state
\* entry: which page is loading; dom: the anchor and its data-bootstrap
\* attribute; pc: the next statement; log: the calls made so far, in order;
\* heap: the objects allocated so far, by address; clockReads: the values
\* now() has returned; the other variables are the script's constants.
VARIABLES entry, dom, pc, log, container, bootstrapData, heap, controls, clockReads, bootstrappedState, store, navActive, mounted, error

vars == <<entry, dom, pc, log, container, bootstrapData, heap, controls, clockReads, bootstrappedState, store, navActive, mounted, error>>

NoError == [type |-> "none", at |-> "none"]
Thrown(type, at) == [type |-> type, at |-> at]
\* The spec's names for the errors the script can end with.
MissingAnchorError == Thrown("TypeError", "getAttribute")
MalformedPayloadError == Thrown("SyntaxError", "JSON.parse")

Init ==
    /\ entry \in {"explore", "sqllab"}
    /\ dom \in Doms(entry)
    /\ pc = "csrf"
    /\ log = << >>
    /\ container = Undefined
    /\ bootstrapData = Undefined
    /\ heap = << >>
    /\ controls = Undefined
    /\ clockReads = << >>
    /\ bootstrappedState = Undefined
    /\ store = Undefined
    /\ navActive = FALSE
    /\ mounted = FALSE
    /\ error = NoError

Fail(type, at) == pc' = "failed" /\ error' = Thrown(type, at)

\* initJQueryAjaxCSRF();
InitCSRF(e, next) ==
    /\ entry = e /\ pc = "csrf"
    /\ log' = Append(log, "initJQueryAjaxCSRF")
    /\ pc' = next
    /\ UNCHANGED <<entry, dom, container, bootstrapData, heap, controls, clockReads, bootstrappedState, store, navActive, mounted, error>>

\* const container = document.getElementById(id);
GetElement(e, next) ==
    /\ entry = e /\ pc = "getElement"
    /\ log' = Append(log, "getElementById")
    /\ container' = IF dom.anchor THEN Str("element") ELSE Null
    /\ pc' = next
    /\ UNCHANGED <<entry, dom, bootstrapData, heap, controls, clockReads, bootstrappedState, store, navActive, mounted, error>>

\* const bootstrapData = JSON.parse(container.getAttribute('data-bootstrap'));
ParsePayload_NoNullCheck(e, next) ==
    /\ entry = e /\ pc = "parse"
    /\ log' = Append(log, "JSON.parse")
    /\ bootstrapData' = Null
    /\ pc' = next
    /\ UNCHANGED <<entry, dom, container, heap, controls, clockReads, bootstrappedState, store, navActive, mounted, error>>

ParsePayload(e, next) ==
    /\ entry = e /\ pc = "parse"
    /\ IF container = Null
         THEN /\ Fail("TypeError", "getAttribute")
              /\ UNCHANGED <<log, bootstrapData, heap>>
         ELSE /\ log' = Append(log, "JSON.parse")
              /\ IF ParseThrows(dom.attr)
                   THEN /\ Fail("SyntaxError", "JSON.parse")
                        /\ UNCHANGED <<bootstrapData, heap>>
                   ELSE LET v == JSONparse(dom.attr) IN
                        /\ IF IsObj(v)
                             THEN /\ heap' = Append(heap, v.obj)
                                  /\ bootstrapData' = Ref(Len(heap) + 1)
                             ELSE /\ heap' = heap
                                  /\ bootstrapData' = v
                        /\ pc' = next
                        /\ error' = error
    /\ UNCHANGED <<entry, dom, container, controls, clockReads, bootstrappedState, store, navActive, mounted>>

\* --------------------------------------------------------- explore view
ExploreInitCSRF == InitCSRF("explore", "getElement")

ExploreGetElement == GetElement("explore", "parse")

ExploreParsePayload == ParsePayload("explore", "controls")

\* const controls = getControlsState(bootstrapData, bootstrapData.form_data);
ExploreGetControls_NoInitialValues ==
    /\ entry = "explore" /\ pc = "controls" /\ IsRef(bootstrapData)
    /\ log' = Append(log, "getControlsState")
    /\ controls' = getControlsState(heap[bootstrapData.ref], Undefined)
    /\ pc' = "delete"
    /\ UNCHANGED <<entry, dom, container, bootstrapData, heap, clockReads, bootstrappedState, store, navActive, mounted, error>>

ExploreGetControls ==
    /\ entry = "explore" /\ pc = "controls"
    /\ IF ~IsRef(bootstrapData)
         THEN /\ Fail("TypeError", "form_data")
              /\ UNCHANGED <<log, controls>>
         ELSE LET iv == Get(heap[bootstrapData.ref], "form_data") IN
              /\ log' = Append(log, "getControlsState")
              /\ IF ControlsThrows(iv)
                   THEN /\ Fail("ControlResolutionError", "getControlsState")
                        /\ controls' = controls
                   ELSE /\ controls' = getControlsState(heap[bootstrapData.ref], iv)
                        /\ pc' = "delete"
                        /\ error' = error
    /\ UNCHANGED <<entry, dom, container, bootstrapData, heap, clockReads, bootstrappedState, store, navActive, mounted>>

\* delete bootstrapData.form_data;
ExploreDeleteFormData ==
    /\ entry = "explore" /\ pc = "delete"
    /\ log' = Append(log, "delete")
    /\ heap' = [heap EXCEPT ![bootstrapData.ref] = DeleteProp(@, "form_data")]
    /\ pc' = "merge"
    /\ UNCHANGED <<entry, dom, container, bootstrapData, controls, clockReads, bootstrappedState, store, navActive, mounted, error>>

\* The object literal of lines 31-44; t is the value now() returned.
ExploreLiteralFields(t, c) ==
    [k \in LiteralKeys |->
        CASE k = "chartStatus" -> Null
          [] k = "chartUpdateEndTime" -> Null
          [] k = "chartUpdateStartTime" -> t
          [] k = "dashboards" -> EmptyArray
          [] k = "controls" -> c
          [] k = "latestQueryFormData" -> getFormDataFromControls(c)
          [] k = "filterColumnOpts" -> EmptyArray
          [] k = "isDatasourceMetaLoading" -> False
          [] k = "isStarred" -> False
          [] k = "queryResponse" -> Null
          [] k = "triggerQuery" -> True
          [] k = "triggerRender" -> False]

ExploreLiteral_RawControls(t, c) == [ExploreLiteralFields(t, c) EXCEPT !["latestQueryFormData"] = c]
ExploreLiteral_NoTimestamp(t, c) == [ExploreLiteralFields(t, c) EXCEPT !["chartUpdateStartTime"] = Null]
ExploreLiteral(t, c) == ExploreLiteralFields(t, c)

\* Object.assign(bootstrapData, {...}): the payload object is the target.
ExploreAssign_PayloadLast(h, t, lit) == [heap |-> Append(h, AssignAll(NoFields, <<lit, h[t]>>)), result |-> Ref(Len(h) + 1)]
ExploreAssign_LiteralOnly(h, t, lit) == [heap |-> Append(h, lit), result |-> Ref(Len(h) + 1)]
ExploreAssign(h, t, lit) == [heap |-> ObjectAssign(h, t, <<lit>>), result |-> Ref(t)]

\* const bootstrappedState = Object.assign(bootstrapData, {...});
ExploreMerge ==
    /\ entry = "explore" /\ pc = "merge"
    /\ \E t \in 1..MaxClock :
         LET r == ExploreAssign(heap, bootstrapData.ref, ExploreLiteral(Num(t), controls)) IN
         /\ clockReads' = Append(clockReads, Num(t))
         /\ heap' = r.heap
         /\ bootstrappedState' = r.result
    /\ log' = log \o <<"now", "getFormDataFromControls", "Object.assign">>
    /\ pc' = "createStore"
    /\ UNCHANGED <<entry, dom, container, bootstrapData, controls, store, navActive, mounted, error>>

\* const store = createStore(reducer, initialState, enhancer);
CreateStore(e, reducer, next) ==
    /\ entry = e /\ pc = "createStore"
    /\ log' = Append(log, "createStore")
    /\ store' = [reducer |-> reducer, state |-> bootstrappedState]
    /\ pc' = next
    /\ UNCHANGED <<entry, dom, container, bootstrapData, heap, controls, clockReads, bootstrappedState, navActive, mounted, error>>

ExploreCreateStore == CreateStore("explore", "exploreReducer", "render")

\* ReactDOM.render(<Provider store={store}>...</Provider>, container);
Render(e) ==
    /\ entry = e /\ pc = "render"
    /\ log' = Append(log, "render")
    /\ mounted' = TRUE
    /\ pc' = "done"
    /\ UNCHANGED <<entry, dom, container, bootstrapData, heap, controls, clockReads, bootstrappedState, store, navActive, error>>

ExploreRender == Render("explore")

\* ---------------------------------------------------------------- SQL Lab
SqlLabInitCSRF == InitCSRF("sqllab", "getElement")

SqlLabGetElement == GetElement("sqllab", "parse")

SqlLabParsePayload == ParsePayload("sqllab", "merge")

\* Object.assign({}, getInitialState(...), bootstrapData): a fresh target.
SqlLabAssign_DefaultsLast(h, t, defaults) == [heap |-> ObjectAssign(Append(h, NoFields), Len(h) + 1, <<h[t], defaults>>), result |-> Ref(Len(h) + 1)]
SqlLabAssign_InPlace(h, t, defaults) == [heap |-> ObjectAssign(h, t, <<defaults>>), result |-> Ref(t)]
SqlLabAssign(h, t, defaults) == [heap |-> ObjectAssign(Append(h, NoFields), Len(h) + 1, <<defaults, h[t]>>), result |-> Ref(Len(h) + 1)]

\* const state = Object.assign({}, getInitialState(bootstrapData.defaultDbId), bootstrapData);
SqlLabMerge ==
    /\ entry = "sqllab" /\ pc = "merge"
    /\ IF ~IsRef(bootstrapData)
         THEN /\ Fail("TypeError", "defaultDbId")
              /\ UNCHANGED <<log, heap, bootstrappedState>>
         ELSE LET r == SqlLabAssign(heap, bootstrapData.ref, getInitialState(Get(heap[bootstrapData.ref], "defaultDbId"))) IN
              /\ log' = log \o <<"getInitialState", "Object.assign">>
              /\ heap' = r.heap
              /\ bootstrappedState' = r.result
              /\ pc' = "createStore"
              /\ error' = error
    /\ UNCHANGED <<entry, dom, container, bootstrapData, controls, clockReads, store, navActive, mounted>>

SqlLabCreateStore == CreateStore("sqllab", "sqlLabReducer", "navbar")

\* $('a:contains("SQL Lab")').parent().addClass('active');
SqlLabHighlightNavbar ==
    /\ entry = "sqllab" /\ pc = "navbar"
    /\ log' = Append(log, "addClass")
    /\ navActive' = TRUE
    /\ pc' = "render"
    /\ UNCHANGED <<entry, dom, container, bootstrapData, heap, controls, clockReads, bootstrappedState, store, mounted, error>>

SqlLabRender == Render("sqllab")

Next ==
    \/ ExploreInitCSRF
    \/ ExploreGetElement
    \/ ExploreParsePayload
    \/ ExploreGetControls
    \/ ExploreDeleteFormData
    \/ ExploreMerge
    \/ ExploreCreateStore
    \/ ExploreRender
    \/ SqlLabInitCSRF
    \/ SqlLabGetElement
    \/ SqlLabParsePayload
    \/ SqlLabMerge
    \/ SqlLabCreateStore
    \/ SqlLabHighlightNavbar
    \/ SqlLabRender

Spec == Init /\ [][Next]_vars

\* ------------------------------------------------------- claim vocabulary
\* The payload as decoded from the page (dom never changes).
Payload == JSONparse(dom.attr).obj
StoreCreated == store # Undefined
StoreState == heap[store.state.ref]
Merged == pc \in {"createStore", "navbar", "render", "done"}
BeforeExtractionEnds == pc \in {"csrf", "getElement", "parse"}
PayloadFormData == Get(Payload, "form_data")

\* The value the explore script computes for each key it writes itself.
Expected(k) ==
    CASE k = "controls" -> controls
      [] k = "latestQueryFormData" -> Obj([n \in Registry |-> controls.obj[n].obj.value])
      [] k = "chartUpdateStartTime" -> clockReads[1]
      [] k \in {"chartStatus", "chartUpdateEndTime", "queryResponse"} -> Null
      [] k \in {"dashboards", "filterColumnOpts"} -> EmptyArray
      [] k = "triggerQuery" -> True
      [] k \in {"isDatasourceMetaLoading", "isStarred", "triggerRender"} -> False

Stage(call) ==
    CASE call = "initJQueryAjaxCSRF" -> 1
      [] call \in {"getElementById", "JSON.parse"} -> 2
      [] call \in {"getControlsState", "delete"} -> 3
      [] call \in {"now", "getFormDataFromControls", "getInitialState", "Object.assign"} -> 4
      [] call \in {"createStore", "addClass"} -> 5
      [] call = "render" -> 6

Called(c) == \E i \in 1..Len(log) : log[i] = c
Before(a, b) == \A i, j \in 1..Len(log) : (log[i] = a /\ log[j] = b) => i < j
Times(c) == Cardinality({i \in 1..Len(log) : log[i] = c})

\* ------------------------------------------------------------------ claims

\* C1: explore bootstrap: for every reserved key the payload itself contains,
\* the state handed to createStore holds the computed or fixed value at that
\* key, not the payload's value.
C1_ReservedKeysShadowed ==
    (entry = "explore" /\ StoreCreated) =>
        \A k \in ReservedKeys \cap DOMAIN Payload :
            /\ StoreState[k] = Expected(k)
            /\ StoreState[k] # Payload[k]

C1_Witness ==
    /\ entry = "explore" /\ StoreCreated
    /\ {"controls", "isStarred"} \subseteq DOMAIN Payload

\* C2 as stated: in both flows, for every non-reserved key that is both a
\* static default and a payload key the merged state holds the payload's
\* value, and a default survives only for keys the payload does not supply.
DefaultKeys == IF entry = "explore" THEN LiteralKeys ELSE SqlLabDefaultKeys
C2_DefaultsLowestInBothFlows ==
    StoreCreated =>
        \A k \in (DefaultKeys \cap DOMAIN Payload) \ ReservedKeys : StoreState[k] = Payload[k]

\* C2 as amended: in the SQL Lab flow the static defaults have the lowest
\* precedence (payload wins on collision, a default survives only for keys
\* the payload lacks); in the explore flow the fixed fields are applied after
\* the payload, so a payload value for dashboards, filterColumnOpts or
\* queryResponse is replaced by the fixed value.
C2_DefaultsLowestInSqlLabOnly ==
    StoreCreated =>
        /\ entry = "sqllab" =>
             \A k \in SqlLabDefaultKeys :
                 StoreState[k] = IF k \in DOMAIN Payload THEN Payload[k] ELSE getInitialState(Get(Payload, "defaultDbId"))[k]
        /\ entry = "explore" =>
             \A k \in LiteralKeys \ ReservedKeys : StoreState[k] = Expected(k)

C2_Witness ==
    /\ entry = "explore" /\ StoreCreated
    /\ "dashboards" \in DOMAIN Payload
    /\ StoreState["dashboards"] = EmptyArray

\* C3: explore bootstrap: the state handed to createStore has no top-level
\* form_data key, and no key other than controls and latestQueryFormData
\* carries the payload's form data.
C3_FormDataRemoved ==
    (entry = "explore" /\ StoreCreated) =>
        /\ "form_data" \notin DOMAIN StoreState
        /\ IsObj(PayloadFormData) =>
             \A k \in DOMAIN StoreState \ {"controls", "latestQueryFormData"} : StoreState[k] # PayloadFormData

C3_Witness ==
    /\ entry = "explore" /\ StoreCreated
    /\ "form_data" \in DOMAIN Payload

\* C4: in both flows, with no anchor element in the document the script ends
\* with the error thrown by the attribute read of Payload Extraction, and
\* derived-state computation, merge, createStore and render never run.
C4_MissingAnchorIsFatal ==
    ~dom.anchor =>
        /\ BeforeExtractionEnds \/ pc = "failed"
        /\ pc = "failed" => error = MissingAnchorError
        /\ bootstrapData = Undefined /\ controls = Undefined /\ bootstrappedState = Undefined
        /\ store = Undefined /\ ~mounted
        /\ \A i \in 1..Len(log) : log[i] \in {"initJQueryAjaxCSRF", "getElementById"}

C4_Witness == ~dom.anchor /\ pc = "failed" /\ error = MissingAnchorError

\* C5 as stated: in both flows, with the anchor present and the attribute
\* absent or not JSON, Payload Extraction fails with MalformedPayloadError, no
\* payload value (not even null) is produced, and no store is created or
\* mounted.
C5_AbsentOrInvalidFailsInExtraction ==
    (dom.anchor /\ dom.attr \in {AttrNull, BadText}) =>
        /\ bootstrapData = Undefined
        /\ ~BeforeExtractionEnds => (pc = "failed" /\ error = MalformedPayloadError)
        /\ store = Undefined /\ ~mounted

\* C5 as amended: text that is not JSON makes Payload Extraction fail with the
\* parse error and no payload value; an absent attribute is parsed to the null
\* payload, which is passed on, and the next statement fails with a TypeError
\* on its first property read (form_data / defaultDbId); in both cases nothing
\* is derived, merged, stored or mounted.
NullPropertyRead == IF entry = "explore" THEN "form_data" ELSE "defaultDbId"
AfterParse == IF entry = "explore" THEN "controls" ELSE "merge"
C5_AbsentIsNullPayload ==
    dom.anchor =>
        /\ dom.attr = BadText =>
             /\ bootstrapData = Undefined
             /\ ~BeforeExtractionEnds => (pc = "failed" /\ error = MalformedPayloadError)
        /\ (dom.attr = AttrNull /\ ~BeforeExtractionEnds) =>
             /\ bootstrapData = Null
             /\ pc = AfterParse \/ (pc = "failed" /\ error = Thrown("TypeError", NullPropertyRead))
        /\ dom.attr \in {AttrNull, BadText} =>
             /\ controls = Undefined /\ bootstrappedState = Undefined
             /\ store = Undefined /\ ~mounted

C5_Witness ==
    /\ dom.anchor /\ dom.attr = AttrNull
    /\ bootstrapData = Null /\ pc = "failed"

\* C6: explore bootstrap: in the state handed to createStore the keys of
\* latestQueryFormData are exactly the keys of controls, and each form-data
\* value is the current value of the control of the same name.
C6_FormDataMirrorsControls ==
    (entry = "explore" /\ StoreCreated) =>
        LET fd == StoreState["latestQueryFormData"]
            cs == StoreState["controls"] IN
        /\ IsObj(fd) /\ IsObj(cs)
        /\ DOMAIN fd.obj = DOMAIN cs.obj
        /\ \A n \in DOMAIN cs.obj : fd.obj[n] = cs.obj[n].obj.value

C6_Witness ==
    /\ entry = "explore" /\ StoreCreated
    /\ IsObj(PayloadFormData) /\ "metric" \in DOMAIN PayloadFormData.obj
    /\ StoreState["latestQueryFormData"].obj["metric"] = Str("count")

\* C7: explore bootstrap: every payload key other than form_data and the keys
\* the merge writes is in the state handed to createStore with the payload's
\* value, and the state has no keys besides those and the written ones.
C7_OtherPayloadKeysKept ==
    (entry = "explore" /\ StoreCreated) =>
        /\ DOMAIN StoreState = (DOMAIN Payload \ {"form_data"}) \cup LiteralKeys
        /\ \A k \in DOMAIN Payload \ ({"form_data"} \cup LiteralKeys) : StoreState[k] = Payload[k]

C7_Witness ==
    /\ entry = "explore" /\ StoreCreated
    /\ "datasource_id" \in DOMAIN Payload /\ "form_data" \in DOMAIN Payload

PayloadAfterDerive == IF entry = "explore" THEN DeleteProp(Payload, "form_data") ELSE Payload
C10_MergeLeavesPayloadAlone ==
    Merged =>
        /\ bootstrappedState # bootstrapData
        /\ heap[bootstrapData.ref] = PayloadAfterDerive

\* C10 as amended: in the SQL Lab flow the merge builds a new record and leaves
\* the payload record unchanged; in the explore flow the merge writes the
\* fixed fields into the payload record itself, and that same record is the
\* one handed to createStore.
C10_OnlySqlLabCopies ==
    Merged =>
        /\ entry = "sqllab" =>
             /\ bootstrappedState # bootstrapData
             /\ heap[bootstrapData.ref] = Payload
        /\ entry = "explore" =>
             /\ bootstrappedState = bootstrapData
             /\ LiteralKeys \subseteq DOMAIN heap[bootstrapData.ref]
             /\ StoreCreated => store.state = bootstrapData

C10_Witness ==
    /\ entry = "explore" /\ StoreCreated
    /\ store.state = bootstrapData
    /\ heap[bootstrapData.ref] # PayloadAfterDerive

====
